---- MODULE Spec2Model ----
(***************************************************************************)
(* A model of src/reddit_analyzer.py: RedditCommentAnalyzer.               *)
(*                                                                         *)
(*   analyze_comment            per-comment keyword counting               *)
(*   calculate_gen_z_score      density score from the corpus totals       *)
(*   analyze_subreddit_comments the accumulation loop and its final report *)
(*                                                                         *)
(* Text is a sequence of one-character strings.  A Python float is modelled*)
(* bit for bit (53-bit significand, round-to-nearest-even), because the    *)
(* score is round((k / w) * 200) computed in double precision.             *)
(***************************************************************************)
EXTENDS Integers, Sequences, FiniteSets, TLC

VARIABLES
    pc,                  \* position of the run / of the called function
    keywords,            \* self.keywords
    comments,            \* what subreddit.comments() has to offer, in order
    comment_limit,       \* the comment_limit argument
    yielded,             \* how many items the comment listing has yielded
    total_words,
    total_slang,
    keyword_counts,
    comments_with_slang,
    processed_comments,
    saved,               \* the calls of save_results, in order
    args,                \* arguments of a direct call of one method
    ret                  \* its return value

vars == <<pc, keywords, comments, comment_limit, yielded, total_words,
          total_slang, keyword_counts, comments_with_slang,
          processed_comments, saved, args, ret>>

(***************************************************************************)
(* Bounds of the model.                                                    *)
(***************************************************************************)
MaxWords == 400      \* total_words of a direct call of the score
MaxSlang == 24       \* total_keywords of a direct call of the score
MaxTextLen == 4      \* characters of a comment text given to analyze_comment
MaxVocab == 2        \* entries of a vocabulary given to analyze_comment
MaxComments == 3     \* items the comment listing has to offer
MaxLimit == 3        \* comment_limit

Min(a, b) == IF a <= b THEN a ELSE b

\* F applied to the value of x: a local variable, evaluated once
With(x, F(_)) == CHOOSE r \in {F(v) : v \in {x}} : TRUE

(***************************************************************************)
(* IEEE-754 double arithmetic, as far as lines 117 and 120 need it.        *)
(* Natural numbers beyond TLC's 32-bit integers are sequences of limbs in   *)
(* base 2^LimbBits, most significant limb first, without leading zeros     *)
(* (<<>> is 0).  A positive float is [mant, exp]: mant is the 53-bit       *)
(* significand as such a number (2^52 <= mant < 2^53, five limbs, the first*)
(* equal to 1) and exp the binary exponent of its leading bit, so the value*)
(* is mant * 2^(exp - 52).  Zero is [mant |-> <<>>, exp |-> 0].            *)
(***************************************************************************)
LimbBits == 13
MantLimbs == 4          \* limbs below the leading bit: 4 * 13 = 52 bits
Base == 2^LimbBits

FZero == [mant |-> <<>>, exp |-> 0]

BigNorm(x) ==
    LET nz == {i \in 1..Len(x) : x[i] /= 0}
    IN  IF nz = {} THEN <<>>
        ELSE SubSeq(x, CHOOSE i \in nz : \A j \in nz : i <= j, Len(x))

RECURSIVE LimbsToNat(_)
LimbsToNat(x) ==
    IF x = <<>> THEN 0
    ELSE (Base * LimbsToNat(SubSeq(x, 1, Len(x) - 1))) + x[Len(x)]

RECURSIVE NatToLimbs(_)
NatToLimbs(n) ==
    IF n = 0 THEN <<>> ELSE Append(NatToLimbs(n \div Base), n % Base)

\* x * c + carry for a small c: limbs i..1 are still to do, acc holds the rest
RECURSIVE MulLimbs(_, _, _, _, _)
MulLimbs(x, i, c, carry, acc) ==
    IF i = 0 THEN NatToLimbs(carry) \o acc
    ELSE MulLimbs(x, i - 1, c, (x[i] * c + carry) \div Base,
                  <<(x[i] * c + carry) % Base>> \o acc)

BigMulSmall(x, c) == MulLimbs(x, Len(x), c, 0, <<>>)

\* x divided by a small d: quotient and remainder
RECURSIVE DivLimbs(_, _, _, _, _)
DivLimbs(x, i, d, rem, acc) ==
    IF i > Len(x) THEN [q |-> BigNorm(acc), r |-> rem]
    ELSE DivLimbs(x, i + 1, d, (rem * Base + x[i]) % d,
                  Append(acc, (rem * Base + x[i]) \div d))

BigDivSmall(x, d) == DivLimbs(x, 1, d, 0, <<>>)

BigInc(x) == BigNorm(MulLimbs(x, Len(x), 1, 1, <<>>))

BigOdd(x) == x /= <<>> /\ x[Len(x)] % 2 = 1

\* x shifted right by k bits, and whether a non-zero bit was shifted out
BigShr(x, k) ==
    LET a    == Min(k \div LimbBits, Len(x))
        gone == SubSeq(x, Len(x) - a + 1, Len(x))
    IN  With(BigDivSmall(SubSeq(x, 1, Len(x) - a), 2^(k % LimbBits)),
             LAMBDA d :
                [q |-> d.q,
                 sticky |-> d.r /= 0 \/ \E i \in 1..Len(gone) : gone[i] /= 0])

\* Round to a double, ties to even: q is the value truncated to 53 bits
\* (leading bit of exponent exp), num / den in [0, 1) the part cut off.
FRound(q, num, den, exp) ==
    IF ~(2 * num > den \/ (2 * num = den /\ BigOdd(q)))
    THEN [mant |-> q, exp |-> exp]
    ELSE With(BigInc(q), LAMBDA inc :
            IF inc[1] = 1 THEN [mant |-> inc, exp |-> exp]
            ELSE [mant |-> <<1>> \o [i \in 1..MantLimbs |-> 0],
                  exp  |-> exp + 1])

\* scale n / d by a power of two into [1, 2): d <= n < 2d
RECURSIVE Normalise(_, _, _)
Normalise(n, d, e) ==
    IF n < d THEN Normalise(2 * n, d, e - 1)
    ELSE IF n >= 2 * d THEN Normalise(n, 2 * d, e + 1)
    ELSE [n |-> n, d |-> d, exp |-> e]

\* int / int, true division: the correctly rounded quotient (n >= 0, d > 0)
FDiv(n, d) ==
    IF n = 0 THEN FZero
    ELSE With(Normalise(n, d, 0), LAMBDA s :
            With(BigDivSmall(NatToLimbs(s.n) \o [i \in 1..MantLimbs |-> 0],
                             s.d),
                 LAMBDA t : FRound(t.q, t.r, s.d, s.exp)))

\* x * 200.0: 200 = 25 * 2^3; the product with 25 has 57 or 58 bits and is
\* rounded back to 53, the power of two only moves the exponent
FMul200(x) ==
    IF x.mant = <<>> THEN FZero
    ELSE With(BigMulSmall(x.mant, 25), LAMBDA p :
            With(IF p[1] >= 32 THEN 5 ELSE 4, LAMBDA sh :
                With(BigDivSmall(p, 2^sh), LAMBDA t :
                    FRound(t.q, t.r, 2^sh, x.exp + sh + 3))))

\* a round() that sends every tie upward
PyRoundHalfUp(x) ==
    IF x.mant = <<>> \/ x.exp < -1 THEN 0
    ELSE With(LimbsToNat(BigShr(x.mant, 51 - x.exp).q), LAMBDA twice :
            (twice \div 2) + (twice % 2))

\* round(x) of a non-negative float, no ndigits: the nearest integer, a tie
\* going to the even one.  twice is floor(2 * x).
PyRound(x) ==
    IF x.mant = <<>> \/ x.exp < -1 THEN 0
    ELSE With(BigShr(x.mant, 51 - x.exp), LAMBDA t :
            With(LimbsToNat(t.q), LAMBDA twice :
                IF twice % 2 = 1 /\ (t.sticky \/ (twice \div 2) % 2 = 1)
                THEN twice \div 2 + 1 ELSE twice \div 2))

(***************************************************************************)
(* calculate_gen_z_score                                                   *)
(***************************************************************************)
\* the score without its cap
CapScoreUncapped(rounded) == rounded

\* min(100, ...)
CapScore(rounded) == Min(100, rounded)

\* the two totals taken in the wrong order
DensitySwapped(total_keywords, total_words_) ==
    IF total_keywords = 0 THEN FZero
    ELSE With(FDiv(total_words_, total_keywords), LAMBDA q : FMul200(q))

\* (total_keywords / total_words) * 200
Density(total_keywords, total_words_) ==
    With(FDiv(total_keywords, total_words_), LAMBDA q : FMul200(q))

calculate_gen_z_score(total_keywords, total_words_) ==
    IF total_words_ = 0 THEN 0
    ELSE With(Density(total_keywords, total_words_), LAMBDA density :
            CapScore(PyRound(density)))

(***************************************************************************)
(* A direct call of calculate_gen_z_score on arbitrary totals.             *)
(***************************************************************************)
NoCall == [fn |-> "none"]

Idle ==
    /\ comments = <<>>
    /\ comment_limit = 0
    /\ yielded = 0
    /\ total_words = 0
    /\ total_slang = 0
    /\ keyword_counts = <<>>
    /\ comments_with_slang = 0
    /\ processed_comments = 0
    /\ saved = <<>>

InitScore ==
    /\ pc = "call"
    /\ Idle
    /\ keywords = <<>>
    /\ \E k \in 0..MaxSlang, w \in 0..MaxWords :
          args = [fn |-> "calculate_gen_z_score",
                  total_keywords |-> k, total_words |-> w]
    /\ ret = NoCall

CallScore ==
    /\ pc = "call"
    /\ args.fn = "calculate_gen_z_score"
    /\ ret' = calculate_gen_z_score(args.total_keywords, args.total_words)
    /\ pc' = "returned"
    /\ UNCHANGED <<keywords, comments, comment_limit, yielded, total_words,
                   total_slang, keyword_counts, comments_with_slang,
                   processed_comments, saved, args>>

NextScore == CallScore

SpecScore == InitScore /\ [][NextScore]_vars

(***************************************************************************)
(* Text.  A string is a sequence of characters.                            *)
(***************************************************************************)
Alphabet == {"a", "A", " "}

RECURSIVE SeqsUpTo(_, _)
SeqsUpTo(S, n) ==
    IF n = 0 THEN {<<>>}
    ELSE LET shorter == SeqsUpTo(S, n - 1)
         IN  shorter \cup {Append(t, x) : t \in shorter, x \in S}

Range(f) == {f[i] : i \in DOMAIN f}

\* str.lower(), character by character
LowerChar(ch) ==
    CASE ch = "A" -> "a"
      [] ch = "D" -> "d"
      [] OTHER    -> ch

Lower(text) == [i \in 1..Len(text) |-> LowerChar(text[i])]

\* len(text.split()): the maximal runs of characters that are no whitespace
WordCount(text) ==
    Cardinality({i \in 1..Len(text) :
                    text[i] /= " " /\ (i = 1 \/ text[i - 1] = " ")})

MatchesAt(text, sub, i) ==
    /\ i + Len(sub) - 1 <= Len(text)
    /\ \A j \in 1..Len(sub) : text[i + j - 1] = sub[j]

\* the scan of str.count restarted after every character, a match or not
RECURSIVE CountFromOverlapping(_, _, _)
CountFromOverlapping(text, sub, i) ==
    IF i + Len(sub) - 1 > Len(text) THEN 0
    ELSE (IF MatchesAt(text, sub, i) THEN 1 ELSE 0)
             + CountFromOverlapping(text, sub, i + 1)

\* the scan of str.count from position i: after a match it resumes behind
\* the matched span
RECURSIVE CountFrom(_, _, _)
CountFrom(text, sub, i) ==
    IF i + Len(sub) - 1 > Len(text) THEN 0
    ELSE IF MatchesAt(text, sub, i)
         THEN 1 + CountFrom(text, sub, i + Len(sub))
         ELSE CountFrom(text, sub, i + 1)

\* a count of all occurrences, overlapping ones included
StrCountOverlapping(text, sub) ==
    IF sub = <<>> THEN Len(text) + 1 ELSE CountFromOverlapping(text, sub, 1)

\* text.count(sub)
StrCount(text, sub) ==
    IF sub = <<>> THEN Len(text) + 1 ELSE CountFrom(text, sub, 1)

(***************************************************************************)
(* analyze_comment.  A dict or Counter is a function on its set of keys.   *)
(***************************************************************************)
EmptyDict == <<>>

\* d[key] += value
AddItem(d, key, value) ==
    [k \in DOMAIN d \cup {key} |->
        IF k = key THEN (IF k \in DOMAIN d THEN d[k] ELSE 0) + value ELSE d[k]]

\* d[key] = value
SetItem(d, key, value) ==
    [k \in DOMAIN d \cup {key} |-> IF k = key THEN value ELSE d[k]]

\* the for loop of lines 142-147, from the i-th keyword on
RECURSIVE CountKeywords(_, _, _, _)
CountKeywords(kws, i, text, keyword_counts_) ==
    IF i > Len(kws) THEN keyword_counts_
    ELSE With(StrCount(text, Lower(kws[i])), LAMBDA count :
            With(IF count > 0 THEN SetItem(keyword_counts_, kws[i], count)
                 ELSE keyword_counts_,
                 LAMBDA counted : CountKeywords(kws, i + 1, text, counted)))

analyze_comment(kws, comment_text) ==
    With(Lower(comment_text), LAMBDA text :
        CountKeywords(kws, 1, text, EmptyDict))

(***************************************************************************)
(* A direct call of analyze_comment on an arbitrary text and vocabulary.   *)
(* The phrases keep the features of the built-in list: a phrase inside     *)
(* another ('fr', 'fr fr'), a phrase with a space, a phrase with a capital *)
(* ('huge L' next to 'huge l'), and vocabularies list a phrase twice       *)
(* ('deadass', 'hits', 'on god').                                          *)
(***************************************************************************)
Phrases == {<<"a">>, <<"a", "a">>, <<"A">>, <<"a", " ", "a">>, <<"A", "a">>}

Texts == SeqsUpTo(Alphabet, MaxTextLen)

Vocabularies == SeqsUpTo(Phrases, MaxVocab)

InitMatch ==
    /\ pc = "call"
    /\ Idle
    /\ keywords \in Vocabularies
    /\ \E t \in Texts : args = [fn |-> "analyze_comment", comment_text |-> t]
    /\ ret = NoCall

CallMatch ==
    /\ pc = "call"
    /\ args.fn = "analyze_comment"
    /\ ret' = analyze_comment(keywords, args.comment_text)
    /\ pc' = "returned"
    /\ UNCHANGED <<keywords, comments, comment_limit, yielded, total_words,
                   total_slang, keyword_counts, comments_with_slang,
                   processed_comments, saved, args>>

NextMatch == CallMatch

SpecMatch == InitMatch /\ [][NextMatch]_vars

(***************************************************************************)
(* analyze_subreddit_comments.                                             *)
(*                                                                         *)
(* An item of the comment listing is a comment with a text body, a comment *)
(* whose analysis raises (its body is no string, or reading it fails), or  *)
(* the point at which the listing itself raises.                           *)
(***************************************************************************)
Deleted == <<"[", "d", "e", "l", "e", "t", "e", "d", "]">>
Removed == <<"[", "r", "e", "m", "o", "v", "e", "d", "]">>
NotAPlaceholder == <<"[", "D", "e", "l", "e", "t", "e", "d", "]">>

Bodies == {<<"a">>, <<"A", " ", "a">>, NotAPlaceholder, Deleted, Removed}

Items ==
    [kind : {"comment"}, body : Bodies]
        \cup {[kind |-> "broken", body |-> <<>>],
              [kind |-> "listing_error", body |-> <<>>]}

\* self.keywords, cut down to the alphabet of the model: a phrase, a phrase
\* with a space that contains it, a phrase with a capital, and a phrase
\* listed twice
BuiltinKeywords == << <<"a">>, <<"a", " ", "a">>, <<"A">>, <<"a">> >>

\* sum(d.values())
RECURSIVE SumValues(_)
SumValues(d) ==
    IF DOMAIN d = {} THEN 0
    ELSE LET k == CHOOSE x \in DOMAIN d : TRUE
         IN  d[k] + SumValues([x \in DOMAIN d \ {k} |-> d[x]])

\* dict.update(d): the counts of d replace those held
CounterUpdateOverwrite(counter, d) ==
    [k \in DOMAIN counter \cup DOMAIN d |->
        IF k \in DOMAIN d THEN d[k] ELSE counter[k]]

\* Counter.update(d): the counts of d are added
CounterUpdate(counter, d) ==
    [k \in DOMAIN counter \cup DOMAIN d |->
        (IF k \in DOMAIN counter THEN counter[k] ELSE 0)
            + (IF k \in DOMAIN d THEN d[k] ELSE 0)]

ZeroTotals ==
    [total_words |-> 0, total_slang |-> 0, keyword_counts |-> EmptyDict,
     comments_with_slang |-> 0, processed_comments |-> 0]

Totals ==
    [total_words |-> total_words, total_slang |-> total_slang,
     keyword_counts |-> keyword_counts,
     comments_with_slang |-> comments_with_slang,
     processed_comments |-> processed_comments]

WithSlang(t, comment_keywords) ==
    [t EXCEPT !.comments_with_slang = @ + 1,
              !.keyword_counts = CounterUpdate(@, comment_keywords),
              !.total_slang = @ + SumValues(comment_keywords)]

\* line 202 indented into the if of line 194
TallyIndented(t, comment_keywords, words_in_comment) ==
    IF comment_keywords /= EmptyDict
    THEN [WithSlang([t EXCEPT !.total_words = @ + words_in_comment],
                    comment_keywords)
             EXCEPT !.processed_comments = @ + 1]
    ELSE [t EXCEPT !.total_words = @ + words_in_comment]

\* line 191 with = in place of +=
TallyLastWords(t, comment_keywords, words_in_comment) ==
    [(IF comment_keywords /= EmptyDict
      THEN WithSlang([t EXCEPT !.total_words = words_in_comment],
                     comment_keywords)
      ELSE [t EXCEPT !.total_words = words_in_comment])
        EXCEPT !.processed_comments = @ + 1]

\* lines 191-202: one analysed comment is added to the totals
Tally(t, comment_keywords, words_in_comment) ==
    [(IF comment_keywords /= EmptyDict
      THEN WithSlang([t EXCEPT !.total_words = @ + words_in_comment],
                     comment_keywords)
      ELSE [t EXCEPT !.total_words = @ + words_in_comment])
        EXCEPT !.processed_comments = @ + 1]

\* a failing record that was counted before it raised
OnFailureCounted(t) == [t EXCEPT !.processed_comments = @ + 1]

\* lines 207-209: the analysis raised before line 191 changed anything
OnFailure(t) == t

\* the body of the for loop, lines 182-209
ProcessComment(t, kws, item) ==
    IF item.kind = "broken" THEN OnFailure(t)
    ELSE IF item.body \in {Deleted, Removed} THEN t
    ELSE With(analyze_comment(kws, item.body), LAMBDA comment_keywords :
            Tally(t, comment_keywords, WordCount(item.body)))

\* how many items subreddit.comments(limit=comment_limit) yields at most
Supplied == Min(comment_limit, Len(comments))

\* the arguments of save_results, lines 215-222
Summary ==
    [Gen_Z_Score         |-> calculate_gen_z_score(total_slang, total_words),
     Total_Comments      |-> processed_comments,
     Comments_With_Slang |-> comments_with_slang,
     Total_Words         |-> total_words,
     Total_Slang_Words   |-> total_slang]

Init ==
    /\ pc = "start"
    /\ keywords = BuiltinKeywords
    /\ comments \in SeqsUpTo(Items, MaxComments)
    /\ comment_limit \in 0..MaxLimit
    /\ yielded = 0
    /\ total_words = 0
    /\ total_slang = 0
    /\ keyword_counts = EmptyDict
    /\ comments_with_slang = 0
    /\ processed_comments = 0
    /\ saved = <<>>
    /\ args = NoCall
    /\ ret = NoCall

\* lines 169-178
Start ==
    /\ pc = "start"
    /\ total_words' = 0
    /\ total_slang' = 0
    /\ keyword_counts' = EmptyDict
    /\ comments_with_slang' = 0
    /\ processed_comments' = 0
    /\ pc' = "loop"
    /\ UNCHANGED <<keywords, comments, comment_limit, yielded, saved, args,
                   ret>>

\* one iteration of the for loop, lines 181-209
NextComment ==
    /\ pc = "loop"
    /\ yielded < Supplied
    /\ comments[yielded + 1].kind /= "listing_error"
    /\ \E t \in {ProcessComment(Totals, keywords, comments[yielded + 1])} :
           /\ total_words' = t.total_words
           /\ total_slang' = t.total_slang
           /\ keyword_counts' = t.keyword_counts
           /\ comments_with_slang' = t.comments_with_slang
           /\ processed_comments' = t.processed_comments
    /\ yielded' = yielded + 1
    /\ UNCHANGED <<pc, keywords, comments, comment_limit, saved, args, ret>>

\* the listing raises: lines 232-233, nothing is saved
ListingError ==
    /\ pc = "loop"
    /\ yielded < Supplied
    /\ comments[yielded + 1].kind = "listing_error"
    /\ pc' = "failed"
    /\ UNCHANGED <<keywords, comments, comment_limit, yielded, total_words,
                   total_slang, keyword_counts, comments_with_slang,
                   processed_comments, saved, args, ret>>

\* a report that is left out when no comment was processed
FinishUnlessEmpty ==
    /\ pc = "loop"
    /\ yielded >= Supplied
    /\ saved' = IF processed_comments = 0 THEN saved
                ELSE Append(saved, Summary)
    /\ pc' = "done"
    /\ UNCHANGED <<keywords, comments, comment_limit, yielded, total_words,
                   total_slang, keyword_counts, comments_with_slang,
                   processed_comments, args, ret>>

\* the listing is exhausted or cut off: lines 211-230
Finish ==
    /\ pc = "loop"
    /\ yielded >= Supplied
    /\ saved' = Append(saved, Summary)
    /\ pc' = "done"
    /\ UNCHANGED <<keywords, comments, comment_limit, yielded, total_words,
                   total_slang, keyword_counts, comments_with_slang,
                   processed_comments, args, ret>>

Next == Start \/ NextComment \/ ListingError \/ Finish

Spec == Init /\ [][Next]_vars

\* the method runs to its end: no step of it waits for anything
FairSpec == Spec /\ WF_vars(Next)

(***************************************************************************)
(* Properties of calculate_gen_z_score, checked under SpecScore.           *)
(***************************************************************************)
Returned(fn) == pc = "returned" /\ args.fn = fn

\* 200 * k / w rounded to the nearest integer, for the values that are no tie
NearestExact(k, w) ==
    IF 2 * ((200 * k) % w) > w THEN (200 * k) \div w + 1 ELSE (200 * k) \div w

IsTie(k, w) == 2 * ((200 * k) % w) = w

EvenNeighbour(k, w) ==
    LET fl == (200 * k) \div w IN IF fl % 2 = 0 THEN fl ELSE fl + 1

RECURSIVE IsPowerOfTwo(_)
IsPowerOfTwo(n) == n = 1 \/ (n > 1 /\ n % 2 = 0 /\ IsPowerOfTwo(n \div 2))

\* C3 as stated: for total_words > 0 the score is min(100, r), r being
\* 200 * k / w rounded to the nearest integer with an exact .5 tie rounded
\* upward.
C3_TiesRoundUp ==
    Returned("calculate_gen_z_score") /\ args.total_words > 0
        => ret = Min(100, (400 * args.total_keywords + args.total_words)
                              \div (2 * args.total_words))

\* C3 amended: for total_words > 0 the score is min(100, r), where r is the
\* nearest integer to 200 * k / w whenever that value is no exact .5 tie; at
\* an exact tie r is one of the two neighbouring integers, and it is the even
\* one when w is a power of two (quotient and product are then exact
\* doubles).  score(1, 16) = 12, score(1, 400) = 0, score(5, 400) = 2 and
\* score(23, 80) = 57.
C3_NearestTiesToEven ==
    Returned("calculate_gen_z_score") /\ args.total_words > 0
        => LET k == args.total_keywords
               w == args.total_words
           IN  /\ ~IsTie(k, w) => ret = Min(100, NearestExact(k, w))
               /\ IsTie(k, w) =>
                     ret \in {Min(100, (200 * k) \div w),
                              Min(100, (200 * k) \div w + 1)}
               /\ IsTie(k, w) /\ IsPowerOfTwo(w)
                     => ret = Min(100, EvenNeighbour(k, w))
               /\ (k = 1 /\ w = 16) => ret = 12
               /\ (k = 1 /\ w = 400) => ret = 0
               /\ (k = 5 /\ w = 400) => ret = 2
               /\ (k = 23 /\ w = 80) => ret = 57

\* a tie that the claim's rule would round up and the code rounds down
C3_Witness ==
    /\ Returned("calculate_gen_z_score")
    /\ args.total_keywords = 5 /\ args.total_words = 400
    /\ ret = 2

\* C4: for all non-negative totals, also with more slang occurrences than
\* words, the score is an integer in [0, 100], and it is 0 when total_words
\* is 0.
C4_ScoreInRange ==
    Returned("calculate_gen_z_score")
        => /\ ret \in 0..100
           /\ args.total_words = 0 => ret = 0

C4_Witness ==
    /\ Returned("calculate_gen_z_score")
    /\ args.total_keywords > args.total_words
    /\ args.total_words > 0
    /\ ret = 100

\* C8: for fixed total_words > 0 the score is non-decreasing in the number
\* of slang occurrences: score(k1, w) <= score(k2, w) for all k1 <= k2.
C8_Monotone ==
    Returned("calculate_gen_z_score") /\ args.total_words > 0
        => \A k1 \in 0..args.total_keywords :
              calculate_gen_z_score(k1, args.total_words) <= ret

C8_Witness ==
    /\ Returned("calculate_gen_z_score")
    /\ args.total_words > 0
    /\ args.total_keywords > 0
    /\ calculate_gen_z_score(args.total_keywords - 1, args.total_words) < ret
    /\ ret < 100

(***************************************************************************)
(* Properties of analyze_comment, checked under SpecMatch.                 *)
(***************************************************************************)
\* the positions at which sub occurs in text
Occurrences(text, sub) == {i \in 1..Len(text) : MatchesAt(text, sub, i)}

\* The occurrences a left-to-right scan takes: an occurrence is taken exactly
\* when no occurrence taken before it reaches into it.
Taken(text, sub) ==
    CHOOSE G \in SUBSET Occurrences(text, sub) :
        \A p \in Occurrences(text, sub) :
            p \in G <=> \A g \in G : g < p => g + Len(sub) <= p

NonOverlapping(text, sub) == Cardinality(Taken(text, sub))

\* C5: the result maps every vocabulary phrase that occurs in the text to
\* the number of its non-overlapping left-to-right occurrences (lowercased
\* phrase in lowercased text, each phrase on its own), and holds no other
\* key, so every value is at least 1.
C5_NonOverlappingCounts ==
    Returned("analyze_comment")
        => LET text == Lower(args.comment_text)
               found == {k \in Range(keywords) :
                            NonOverlapping(text, Lower(k)) >= 1}
           IN  /\ DOMAIN ret = found
               /\ \A k \in found :
                     ret[k] = NonOverlapping(text, Lower(k)) /\ ret[k] >= 1

\* "aa" in "aaa" counts once
C5_Witness ==
    /\ Returned("analyze_comment")
    /\ args.comment_text = <<"a", "A", "a">>
    /\ <<"a", "a">> \in DOMAIN ret
    /\ ret[<<"a", "a">>] = 1
    /\ <<"A">> \in DOMAIN ret
    /\ ret[<<"A">>] = 3

\* the vocabulary without the later repetitions of an entry
RECURSIVE Dedup(_)
Dedup(kws) ==
    IF kws = <<>> THEN <<>>
    ELSE LET front == Dedup(SubSeq(kws, 1, Len(kws) - 1))
         IN  IF kws[Len(kws)] \in Range(front) THEN front
             ELSE Append(front, kws[Len(kws)])

\* C10: a phrase listed more than once is counted once per record: the
\* result for a vocabulary is the result for the vocabulary with the
\* repeated entries removed.
C10_DuplicatesCountOnce ==
    Returned("analyze_comment")
        => ret = analyze_comment(Dedup(keywords), args.comment_text)

C10_Witness ==
    /\ Returned("analyze_comment")
    /\ \E i, j \in 1..Len(keywords) :
          i < j /\ keywords[i] = keywords[j] /\ keywords[i] \in DOMAIN ret

(***************************************************************************)
(* Properties of analyze_subreddit_comments, checked under Spec and        *)
(* FairSpec.                                                               *)
(***************************************************************************)
\* the items the loop has been given so far
Seen == SubSeq(comments, 1, yielded)

Fails(item) == item.kind = "broken"

Placeholder(item) ==
    item.kind = "comment" /\ item.body \in {Deleted, Removed}

RealComment(item) ==
    item.kind = "comment" /\ item.body \notin {Deleted, Removed}

RECURSIVE FoldAll(_, _)
FoldAll(items, t) ==
    IF items = <<>> THEN t
    ELSE FoldAll(Tail(items), ProcessComment(t, keywords, Head(items)))

NotFailing(item) == ~Fails(item)

\* C1: a record whose analysis raises leaves total_words, total_slang,
\* comments_with_slang, keyword_counts and processed_comments as they were,
\* the loop goes on to the next record, and the totals at the end are those
\* of the stream without its failing records.
C1_FailingRecordContributesNothing ==
    /\ [][pc = "loop" /\ yielded < Len(comments) /\ yielded' = yielded + 1
             /\ Fails(comments[yielded + 1])
          => Totals' = Totals /\ pc' = "loop"]_vars
    /\ [](pc = "done"
            => Totals = FoldAll(SelectSeq(Seen, NotFailing), ZeroTotals))

\* a failing record has been passed and the record after it was counted
C1_Witness ==
    /\ pc = "done"
    /\ \E i \in 1..yielded - 1 :
          /\ Fails(comments[i])
          /\ RealComment(comments[i + 1])
    /\ processed_comments >= 1

\* C2: processed_comments is the number of records given so far that are
\* real comments and did not raise, whatever their number of matches;
\* placeholders and failing records are not counted.
C2_ProcessedCountsAnalysed ==
    pc \in {"loop", "done", "failed"}
        => processed_comments
              = Cardinality({i \in 1..yielded : RealComment(comments[i])})

\* all four kinds of record in one run, one of them without a match
C2_Witness ==
    /\ pc = "done"
    /\ \E i, j, k \in 1..yielded :
          /\ Fails(comments[i])
          /\ Placeholder(comments[j])
          /\ comments[k] = [kind |-> "comment", body |-> NotAPlaceholder]
    /\ processed_comments = 1
    /\ comments_with_slang = 0

ZeroSummary ==
    [Gen_Z_Score |-> 0, Total_Comments |-> 0, Comments_With_Slang |-> 0,
     Total_Words |-> 0, Total_Slang_Words |-> 0]

\* C6: once the stream has ended (exhausted or cut off by the limit) the run
\* eventually hands one summary to save_results; there is never more than
\* one, it is handed over only after the last supplied record, it carries the
\* score of the totals and the totals themselves, and for an empty stream it
\* is all zero.
C6_SummaryAfterStreamEnds ==
    /\ (pc = "loop" /\ yielded = Supplied) ~> (Len(saved) = 1)
    /\ [](Len(saved) <= 1)
    /\ [](saved /= <<>>
            => /\ yielded = Supplied
               /\ Totals = FoldAll(SubSeq(comments, 1, Supplied), ZeroTotals)
               /\ saved[1] =
                    [Gen_Z_Score |->
                         calculate_gen_z_score(total_slang, total_words),
                     Total_Comments      |-> processed_comments,
                     Comments_With_Slang |-> comments_with_slang,
                     Total_Words         |-> total_words,
                     Total_Slang_Words   |-> total_slang]
               /\ Supplied = 0 => saved[1] = ZeroSummary)

\* a stream cut off by the limit, with a failing record in it
C6_Witness ==
    /\ pc = "done"
    /\ Len(saved) = 1
    /\ comment_limit < Len(comments)
    /\ \E i \in 1..yielded : Fails(comments[i])
    /\ saved[1].Total_Comments >= 1

Perms(n) == {f \in [1..n -> 1..n] : \A i, j \in 1..n : f[i] = f[j] => i = j}

\* C7: the totals at the end of the loop, and so the score, are the same for
\* every order of the records supplied.
C7_OrderIndependent ==
    pc = "done"
        => \A f \in Perms(yielded) :
              LET t == FoldAll([i \in 1..yielded |-> comments[f[i]]],
                               ZeroTotals)
              IN  /\ t = Totals
                  /\ calculate_gen_z_score(t.total_slang, t.total_words)
                        = saved[1].Gen_Z_Score

\* two different records with words and slang were supplied
C7_Witness ==
    /\ pc = "done"
    /\ yielded >= 2
    /\ comments[1] /= comments[2]
    /\ RealComment(comments[1])
    /\ RealComment(comments[2])
    /\ comments_with_slang = 2

\* C9: at every record boundary total_slang is the sum of the values of
\* keyword_counts.
C9_SlangIsSumOfCounts ==
    total_slang = SumValues(keyword_counts)

\* two records with slang have been merged
C9_Witness ==
    /\ pc = "loop"
    /\ comments_with_slang >= 2
    /\ total_slang > 0

====
